---------------------------- MODULE Spec2Model ----------------------------
(***************************************************************************)
(* A model of acme_tiny.py: get_crt and its helper _send_signed_request.   *)
(* One run of get_crt is a sequential program; pc is its position and      *)
(* step the position inside the running _send_signed_request call.  The    *)
(* authority, the web server that serves the challenge directory, openssl  *)
(* and the network are the environment: their answers are drawn with \E.   *)
(***************************************************************************)
EXTENDS Integers, Sequences, FiniteSets, TLC

\* ------------------------------------------------------------------ bounds
\* Polls of one challenge the authority may answer with "pending".
MaxPolls == 2
\* Link headers on the new-cert response.
MaxLinks == 2
MaxTokenLen == 3

\* --------------------------------------------------------------- constants
\* getattr(e, "code", None): the value of code when no HTTP status was read.
\* HTTP status codes are >= 100, so 0 is no status code.
NoneCode == 0

\* The names a CSR of the model can attest to.
DomainNames == {"a.example", "www.a.example"}

\* Status codes the authority answers a POST with.
StatusCodes == {201, 202, 403, 409}

\* urlopen returns a 2xx response and raises HTTPError for the others.
Is2xx(code) == code >= 200 /\ code < 300

\* Characters of the model; a text is a sequence of them.
Whitespace == {" ", "\t", "\n"}
TokenSafe == {"a", "B", "9", "_", "-"}

\* thumbprint, line 47: a digest, here two base64url characters.
thumbprint == <<"T", "p">>

\* The value header gets at lines 40-45: {alg, jwk} of the account key.
AccountHeader == [alg |-> "RS256", jwk |-> "jwk(account_key)"]

\* ------------------------------------------------------------ pure helpers
\* Variant of Sanitize: the characters outside the class are dropped.
SanitizeDropUnsafe(tok) == SelectSeq(tok, LAMBDA c : c \in TokenSafe)

\* re.sub(r"[^A-Za-z0-9_\-]", "_", token), line 112.
Sanitize(tok) == [i \in DOMAIN tok |-> IF tok[i] \in TokenSafe THEN tok[i] ELSE "_"]

\* "http://{0}/.well-known/acme-challenge/{1}".format(domain, token), line
\* 118-119.
WellknownUrl(dom, tok) == <<"http://", dom, "/.well-known/acme-challenge/">> \o tok

\* "{0}.{1}".format(token, thumbprint), line 113.
KeyAuthorization(tok) == tok \o <<".">> \o thumbprint

\* str.strip(), line 122: drop leading and trailing whitespace.
RECURSIVE LStrip(_)
LStrip(s) == IF s # <<>> /\ Head(s) \in Whitespace THEN LStrip(Tail(s)) ELSE s
RECURSIVE RStrip(_)
RStrip(s) ==
    IF s # <<>> /\ s[Len(s)] \in Whitespace THEN RStrip(SubSeq(s, 1, Len(s) - 1)) ELSE s
Strip(s) == RStrip(LStrip(s))

\* lines 76-84: the common name and the DNS: entries of the SAN line.
ExtractDomains(csr_dump) ==
    {csr_dump.cn[i] : i \in DOMAIN csr_dump.cn}
        \cup {csr_dump.san[i].value : i \in {j \in DOMAIN csr_dump.san : csr_dump.san[j].type = "DNS"}}

\* CSR text dumps of the model: an optional CN and a SAN list.
SanLists ==
    { <<>>,
      <<[type |-> "DNS", value |-> "a.example"]>>,
      <<[type |-> "IP Address", value |-> "10.0.0.1"]>>,
      <<[type |-> "DNS", value |-> "a.example"], [type |-> "DNS", value |-> "www.a.example"]>>,
      <<[type |-> "IP Address", value |-> "10.0.0.1"], [type |-> "DNS", value |-> "www.a.example"]>> }
CsrDumps == {[cn |-> c, san |-> s] : c \in {<<>>, <<"a.example">>}, s \in SanLists}

\* ------------------------------------------------- expected-status tables
\* return_codes of the four call sites, lines 99, 108, 131, 154: a map from
\* status code to a message, "None" when the message is absent.
\* Variant of RegCodes: only "created" is expected of new-reg.
RegCodesCreatedOnly == [c \in {201} |-> "Registered!"]
RegCodes == [c \in {201, 409} |-> IF c = 201 THEN "Registered!" ELSE "Already registered!"]
AuthzCodes == [c \in {201} |-> "None"]
\* Variant of NotifyCodes: "created" is expected of the notify as well.
NotifyCodesCreatedToo == [c \in {201, 202} |-> "None"]
NotifyCodes == [c \in {202} |-> "None"]
CertCodes == [c \in {201} |-> "None"]
ReturnCodes(site) ==
    CASE site = "new-reg" -> RegCodes
      [] site = "new-authz" -> AuthzCodes
      [] site = "challenge" -> NotifyCodes
      [] site = "new-cert" -> CertCodes

\* error_message of the four call sites.
ErrorMessage(site) ==
    CASE site = "new-reg" -> "Error registering"
      [] site = "new-authz" -> "Error requesting challenges"
      [] site = "challenge" -> "Error triggering challenge"
      [] site = "new-cert" -> "Error signing certificate"

\* ------------------------------------------------------------ environment
\* Challenge lists of a new-authz 201 body; the uri is the challenge's own.
ChallengeLists(dom) ==
    { <<[type |-> "dns-01", token |-> <<"a", "B", "-">>, uri |-> <<dom, "dns">>]>>,
      <<[type |-> "dns-01", token |-> <<"a", "B", "-">>, uri |-> <<dom, "dns">>],
        [type |-> "http-01", token |-> <<"a", "B", "-">>, uri |-> <<dom, "http">>]>>,
      <<[type |-> "http-01", token |-> <<"9", "/", "~">>, uri |-> <<dom, "http">>],
        [type |-> "tls-sni-01", token |-> <<"a", "B", "-">>, uri |-> <<dom, "tls">>]>> }

\* Link header values: each is the list of links of one header line.
LinkHeaders ==
    { <<[url |-> "ca/issuer1", rel |-> "up"]>>,
      <<[url |-> "ca/issuer2", rel |-> "up"]>>,
      <<[url |-> "ca/terms", rel |-> "terms-of-service"]>> }
RECURSIVE SeqsUpTo(_, _)
SeqsUpTo(S, n) ==
    IF n = 0 THEN {<<>>}
    ELSE LET shorter == SeqsUpTo(S, n - 1)
         IN shorter \cup {Append(s, x) : s \in shorter, x \in S}

ErrorBodies == {"detail-1", "detail-2"}
LeafCerts == {"leaf-der"}


\* What the authority can answer to the POST of one call site.  A response
\* read by urlopen is "ok" (2xx) or raises HTTPError (a status with a body);
\* URLError is a failure with no status (connection refused); "other" is an
\* exception that is neither (a malformed status line, a timeout in read).
BodiesFor(site, dom, code) ==
    IF site = "new-authz" /\ code = 201 THEN ChallengeLists(dom)
    ELSE IF site = "new-cert" /\ code = 201 THEN LeafCerts
    ELSE ErrorBodies
\* The Link headers of a response: up to MaxLinks lines, no line twice.
LinkLines ==
    {s \in SeqsUpTo(LinkHeaders, MaxLinks) : \A i, j \in DOMAIN s : s[i] = s[j] => i = j}
HeadersFor(site, code) ==
    IF site = "new-cert" /\ code = 201 THEN LinkLines ELSE {<<>>}
Responses(site, dom) ==
    UNION {{[via |-> IF Is2xx(c) THEN "ok" ELSE "HTTPError", code |-> c, body |-> b,
             headers |-> h, reason |-> "-"] :
                b \in BodiesFor(site, dom, c), h \in HeadersFor(site, c)} : c \in StatusCodes}
    \cup {[via |-> "URLError", code |-> NoneCode, body |-> "-", headers |-> <<>>,
           reason |-> "Connection refused"]}
    \cup {[via |-> "other", code |-> NoneCode, body |-> "-", headers |-> <<>>,
           reason |-> "BadStatusLine"]}

\* What the web server can answer to the fetch of the well-known URL.
WellKnownFetches(ka) ==
    {[kind |-> "ok", data |-> d] :
        d \in {ka, <<"\n">> \o ka \o <<" ", "\t">>, <<"n", "o">>, <<>>}}
    \cup {[kind |-> "IOError", data |-> <<>>], [kind |-> "other", data |-> <<>>]}

\* What the authority can answer to a GET of the challenge resource.
ChallengeStatuses == {"pending", "valid", "invalid", "processing"}
PollAnswers ==
    {[kind |-> "ok", status |-> s] : s \in ChallengeStatuses}
    \cup {[kind |-> k, status |-> "-"] : k \in {"HTTPError", "URLError"}}

\* ------------------------------------------------------------------ state
VARIABLES
    pc,               \* position in get_crt
    step,             \* position in _send_signed_request: none, nonce, sign, post
    chain,            \* the chain argument
    header,           \* the variable header of get_crt
    domains,          \* the set domains, lines 76-84
    todo,             \* domains the loop of line 102 has not yet yielded
    domain,           \* the loop variable
    nonces,           \* nonces the directory has handed out
    protected,        \* protected["nonce"] of the running call
    signature,        \* the variable signature of the running call, line 57
    posted,           \* signed requests sent, with the status each was answered
    lastCall,         \* the last answered call: its response and its outcome
    result,           \* result of the last call that returned
    headers,          \* headers of the last call that returned
    challenge,        \* the selected challenge, line 111
    token,            \* line 112: the sanitized token
    keyauthorization, \* line 113
    wellknown_path,   \* line 114: the file name, the sanitized token
    files,            \* the publication directory: file name -> content
    written,          \* per domain: the writes of its challenge file
    removed,          \* per domain: os.remove calls on its challenge file
    verify,           \* per domain: what the self-verification fetch got
    polled,           \* per domain: the answers of its status polls
    valid,            \* domains whose loop body ended at the break of line 146
    certchain,        \* line 156
    linkIdx,          \* position of the loop of line 158 in the Link headers
    fetched,          \* intermediates fetched, line 162
    err,              \* the exception that ended the run
    output            \* what get_crt returned

callVars == <<step, nonces, protected, signature, posted, lastCall, result, headers>>
domVars == <<challenge, token, keyauthorization, wellknown_path, files, written, removed,
             verify, polled, valid>>
loopVars == <<domains, todo, domain>>
certVars == <<certchain, linkIdx, fetched, output>>
vars == <<pc, chain, header, err, callVars, domVars, loopVars, certVars>>

NoErr == [exc |-> "-", what |-> "-", code |-> NoneCode, result |-> "-"]
NoResp == [via |-> "-", code |-> NoneCode, body |-> "-", headers |-> <<>>, reason |-> "-"]
NoOut == [kind |-> "-", exc |-> "-", what |-> "-", code |-> NoneCode, result |-> "-",
          headers |-> <<>>]
NoCall == [site |-> "-", resp |-> NoResp, out |-> NoOut]
NoChallenge == [type |-> "-", token |-> <<>>, uri |-> <<>>]
NoFetch == [kind |-> "-", data |-> <<>>, url |-> <<>>]
NoSignature == <<>>

Init ==
    /\ pc = "parse_key"
    /\ step = "none"
    /\ chain \in BOOLEAN
    /\ header = AccountHeader
    /\ domains = {}
    /\ todo = {}
    /\ domain = "-"
    /\ nonces = 0
    /\ protected = 0
    /\ signature = NoSignature
    /\ posted = <<>>
    /\ lastCall = NoCall
    /\ result = "-"
    /\ headers = <<>>
    /\ challenge = NoChallenge
    /\ token = <<>>
    /\ keyauthorization = <<>>
    /\ wellknown_path = <<>>
    /\ files = <<>>
    /\ written = [d \in DomainNames |-> <<>>]
    /\ removed = [d \in DomainNames |-> 0]
    /\ verify = [d \in DomainNames |-> NoFetch]
    /\ polled = [d \in DomainNames |-> <<>>]
    /\ valid = {}
    /\ certchain = <<>>
    /\ linkIdx = 0
    /\ fetched = <<>>
    /\ err = NoErr
    /\ output = <<>>

\* Variant of Raise: the exception is recorded and the step is tried again.
RaiseAndRetry(exc, what, code, res) ==
    /\ pc' = pc
    /\ err' = [exc |-> exc, what |-> what, code |-> code, result |-> res]

\* An uncaught exception ends get_crt.
Raise(exc, what, code, res) ==
    /\ pc' = "failed"
    /\ err' = [exc |-> exc, what |-> what, code |-> code, result |-> res]

\* ------------------------------------------------------- lines 33-47, 73-97
\* _openssl("rsa", ...) and the derivation of header and thumbprint.
ParseKey ==
    /\ pc = "parse_key"
    /\ \/ pc' = "parse_csr" /\ err' = err
       \/ Raise("IOError", "OpenSSL Error", NoneCode, "rsa")
    /\ UNCHANGED <<chain, header, callVars, domVars, loopVars, certVars>>

\* _openssl("req", ...) and the two regular expressions over its dump.
ParseCsr ==
    /\ pc = "parse_csr"
    /\ \/ /\ \E dump \in CsrDumps : domains' = ExtractDomains(dump)
          /\ todo' = domains'
          /\ pc' = "terms"
          /\ err' = err
       \/ /\ Raise("IOError", "OpenSSL Error", NoneCode, "req")
          /\ UNCHANGED <<domains, todo>>
    /\ UNCHANGED <<chain, header, callVars, domVars, domain, certVars>>

\* The HEAD /terms probe, lines 89-95; the call of line 99 starts.
Terms ==
    /\ pc = "terms"
    /\ \/ pc' = "new-reg" /\ step' = "nonce" /\ err' = err
       \/ Raise("OSError", "terms probe", NoneCode, "-") /\ step' = step
    /\ UNCHANGED <<chain, header, nonces, protected, signature, posted, lastCall, result,
                   headers,
                   domVars, loopVars, certVars>>

\* ------------------------------------------ _send_signed_request, 50-71
\* Variant of NonceForRequest: a nonce kept from the first call is reused.
NonceCached(fresh, previous) == IF previous # 0 THEN previous ELSE fresh

\* Line 53: the nonce of the protected header is the one just fetched.
NonceForRequest(fresh, previous) == fresh

\* Variant of BoundByResponse: the getattr default of code is a status code.
BoundByResponseDefaultStatus(resp) ==
    IF resp.via = "URLError"
    THEN [code |-> 403, result |-> resp.reason, headers |-> resp.reason]
    ELSE [code |-> resp.code, result |-> resp.body, headers |-> resp.headers]

\* Lines 60-63: code, result, headers as the try or the except branch binds
\* them.  A URLError has no code, read or info: the getattr defaults apply.
BoundByResponse(resp) ==
    IF resp.via = "URLError"
    THEN [code |-> NoneCode, result |-> resp.reason, headers |-> resp.reason]
    ELSE [code |-> resp.code, result |-> resp.body, headers |-> resp.headers]

\* Variant of Outcome: a code whose message is absent is taken for unexpected.
OutcomeMessageRequired(return_codes, error_message, resp) ==
    IF resp.via = "other"
    THEN [kind |-> "raise", exc |-> "UnboundLocalError", what |-> "code",
          code |-> NoneCode, result |-> "-", headers |-> <<>>]
    ELSE IF resp.code \in DOMAIN return_codes /\ return_codes[resp.code] # "None"
         THEN [kind |-> "return", exc |-> "-", what |-> return_codes[resp.code],
               code |-> resp.code, result |-> resp.body, headers |-> resp.headers]
         ELSE [kind |-> "raise", exc |-> "ValueError", what |-> error_message,
               code |-> resp.code, result |-> resp.body, headers |-> <<>>]

\* Lines 64-71, the finally block: return_codes[code] decides.  An exception
\* that is neither HTTPError nor URLError leaves code unbound, and the
\* lookup raises UnboundLocalError, which is no KeyError.
Outcome(return_codes, error_message, resp) ==
    IF resp.via = "other"
    THEN [kind |-> "raise", exc |-> "UnboundLocalError", what |-> "code",
          code |-> NoneCode, result |-> "-", headers |-> <<>>]
    ELSE LET b == BoundByResponse(resp)
         IN IF b.code \in DOMAIN return_codes
            THEN [kind |-> "return", exc |-> "-", what |-> return_codes[b.code],
                  code |-> b.code, result |-> b.result, headers |-> b.headers]
            ELSE [kind |-> "raise", exc |-> "ValueError", what |-> error_message,
                  code |-> b.code, result |-> b.result, headers |-> <<>>]

\* Where get_crt goes on when the call of a site returns.
AfterCall(site) ==
    CASE site = "new-reg" -> "loop"
      [] site = "new-authz" -> "publish"
      [] site = "challenge" -> "poll"
      [] site = "new-cert" -> "assemble"

InCall == pc \in {"new-reg", "new-authz", "challenge", "new-cert"}

\* Variant of HeaderAfterNonce: protected is the header itself, not a copy.
HeaderAliased(h, n) == [alg |-> h.alg, jwk |-> h.jwk, nonce |-> n]

\* Lines 51-53: the nonce is stored into a deep copy of header, which keeps
\* its value.
HeaderAfterNonce(h, n) == h

\* Lines 51-53: the protected header, the copy with the nonce added.
Protected(h, n) == [alg |-> h.alg, jwk |-> h.jwk, nonce |-> n]

\* The payload of the call of each site: lines 99-100, 106-107, 130-131,
\* 153-154.
Payload(site, dom, ka) ==
    CASE site = "new-reg" -> [resource |-> "new-reg", about |-> <<"agreement">>]
      [] site = "new-authz" -> [resource |-> "new-authz", about |-> <<dom>>]
      [] site = "challenge" -> [resource |-> "challenge", about |-> ka]
      [] site = "new-cert" -> [resource |-> "new-cert", about |-> <<"csr_der">>]

\* Line 53: the GET of CA/directory and its Replay-Nonce header.
FetchNonce ==
    /\ InCall /\ step = "nonce"
    /\ \/ /\ nonces' = nonces + 1
          /\ protected' = NonceForRequest(nonces + 1, protected)
          /\ header' = HeaderAfterNonce(header, nonces + 1)
          /\ step' = "sign"
          /\ pc' = pc /\ err' = err
       \/ /\ Raise("URLError", "directory", NoneCode, "-")
          /\ step' = "none"
          /\ UNCHANGED <<header, nonces, protected>>
    /\ UNCHANGED <<chain, signature, posted, lastCall, result, headers, domVars, loopVars,
                   certVars>>

\* The exit statuses of the openssl process.
OpensslExits == {0, 1}

\* Variant of OpensslFails: the exit status is not looked at.
OpensslNeverFails(returncode) == FALSE

\* Lines 25-26: a nonzero exit status raises IOError.
OpensslFails(returncode) == returncode # 0

\* What openssl dgst -sign writes to its standard output.
DgstOutput(returncode, n, payload) ==
    IF returncode = 0 THEN <<[signed |-> n, payload |-> payload]>> ELSE <<>>

\* Line 57: openssl dgst -sha256 -sign over protected64.payload64.
Sign ==
    /\ InCall /\ step = "sign"
    /\ \E returncode \in OpensslExits :
         IF OpensslFails(returncode)
         THEN /\ Raise("IOError", "OpenSSL Error", NoneCode, "dgst")
              /\ step' = "none"
              /\ signature' = signature
         ELSE /\ signature' = DgstOutput(returncode, protected,
                                         Payload(pc, domain, keyauthorization))
              /\ step' = "post" /\ pc' = pc /\ err' = err
    /\ UNCHANGED <<chain, header, nonces, protected, posted, lastCall, result, headers,
                   domVars, loopVars, certVars>>

\* Lines 59-71: the POST, the response and its classification.
Post ==
    /\ InCall /\ step = "post"
    /\ \E resp \in Responses(pc, domain) :
         LET out == Outcome(ReturnCodes(pc), ErrorMessage(pc), resp)
         IN /\ posted' = Append(posted, [site |-> pc, dom |-> domain, header |-> header,
                                          nonce |-> protected,
                                          protected |-> Protected(header, protected),
                                          payload |-> Payload(pc, domain, keyauthorization),
                                          signature |-> signature,
                                          via |-> resp.via, code |-> resp.code])
            /\ lastCall' = [site |-> pc, resp |-> resp, out |-> out]
            /\ IF out.kind = "return"
               THEN /\ result' = out.result
                    /\ headers' = out.headers
                    /\ pc' = AfterCall(pc)
                    /\ err' = err
               ELSE /\ Raise(out.exc, out.what, out.code, out.result)
                    /\ UNCHANGED <<result, headers>>
    /\ step' = "none"
    /\ signature' = NoSignature
    /\ UNCHANGED <<chain, header, nonces, protected, domVars, loopVars, certVars>>

\* ------------------------------------------------------ the loop, line 102
\* for domain in domains: a set is iterated in no particular order.
LoopExhausted(remaining) == remaining = {}

Loop ==
    /\ pc = "loop"
    /\ \/ /\ ~LoopExhausted(todo)
          /\ \E d \in todo : domain' = d /\ todo' = todo \ {d}
          /\ pc' = "new-authz"
       \/ /\ LoopExhausted(todo)
          /\ pc' = "new-cert"
          /\ UNCHANGED <<todo, domain>>
    /\ step' = "nonce"
    /\ UNCHANGED <<chain, header, err, nonces, protected, signature, posted, lastCall,
                   result, headers, domVars, domains, certVars>>

\* ---------------------------------------------------------- lines 110-116
\* Variant of Http01: the first challenge is taken whatever its type.
Http01AnyType(challenges) == challenges

\* The challenges of type http-01, in the order of the response.
Http01(challenges) == SelectSeq(challenges, LAMBDA c : c.type = "http-01")

WriteFile(dir, name, content) ==
    [n \in DOMAIN dir \cup {name} |-> IF n = name THEN content ELSE dir[n]]
RemoveFile(dir, name) == [n \in DOMAIN dir \ {name} |-> dir[n]]

Publish ==
    /\ pc = "publish"
    /\ LET offered == Http01(result)
       IN \/ /\ offered = <<>>
             /\ Raise("IndexError", "list index out of range", NoneCode, "-")
             /\ UNCHANGED <<challenge, token, keyauthorization, wellknown_path, files,
                            written>>
          \/ /\ offered # <<>>
             /\ challenge' = offered[1]
             /\ token' = Sanitize(offered[1].token)
             /\ keyauthorization' = KeyAuthorization(token')
             /\ wellknown_path' = token'
             /\ \/ /\ files' = WriteFile(files, wellknown_path', keyauthorization')
                   /\ written' = [written EXCEPT ![domain] =
                                      Append(@, [path |-> wellknown_path',
                                                 content |-> keyauthorization'])]
                   /\ pc' = "selfcheck"
                   /\ err' = err
                \/ /\ Raise("IOError", "open", NoneCode, "-")
                   /\ UNCHANGED <<files, written>>
    /\ UNCHANGED <<chain, header, callVars, removed, verify, polled, valid, loopVars,
                   certVars>>

\* ---------------------------------------------------------- lines 118-127
\* Variant of SelfCheckVerdict: the content read is not compared.
SelfCheckVerdictNoCompare(fetch, ka) ==
    IF fetch.kind = "other" THEN "uncaught"
    ELSE IF fetch.kind = "ok" THEN "pass"
    ELSE "cleanup"

\* The try of lines 120-123 and what its except clause catches: IOError
\* (URLError, HTTPError, a socket error) and AssertionError lead to the
\* clean-up of lines 125-127; any other exception (a body that is no UTF-8,
\* an http.client exception) leaves get_crt uncaught.
SelfCheckVerdict(fetch, ka) ==
    IF fetch.kind = "other" THEN "uncaught"
    ELSE IF fetch.kind = "ok" /\ Strip(fetch.data) = ka THEN "pass"
    ELSE "cleanup"

SelfCheck ==
    /\ pc = "selfcheck"
    /\ \E fetch \in WellKnownFetches(keyauthorization) :
         LET verdict == SelfCheckVerdict(fetch, keyauthorization)
         IN /\ verify' = [verify EXCEPT ![domain] =
                              [kind |-> fetch.kind, data |-> fetch.data,
                               url |-> WellknownUrl(domain, token)]]
            /\ \/ /\ verdict = "pass"
                  /\ pc' = "challenge" /\ step' = "nonce" /\ err' = err
                  /\ UNCHANGED <<files, removed>>
               \/ /\ verdict = "cleanup"
                  /\ files' = RemoveFile(files, wellknown_path)
                  /\ removed' = [removed EXCEPT ![domain] = @ + 1]
                  /\ Raise("ValueError", "Wrote file, but couldn't download", NoneCode,
                           wellknown_path)
                  /\ step' = step
               \/ /\ verdict = "uncaught"
                  /\ Raise("Exception", "self-check read", NoneCode, "-")
                  /\ step' = step
                  /\ UNCHANGED <<files, removed>>
    /\ UNCHANGED <<chain, header, nonces, protected, signature, posted, lastCall, result,
                   headers,
                   challenge, token, keyauthorization, wellknown_path, written, polled,
                   valid,
                   loopVars, certVars>>

\* ---------------------------------------------------------- lines 133-149
\* Variant of PollVerdict: every status but pending ends the loop at the break.
PollVerdictLenient(ans) ==
    IF ans.kind # "ok" THEN "raise"
    ELSE IF ans.status = "pending" THEN "sleep"
    ELSE "break"

\* Variant of PollVerdict: a pending status ends the loop with an error.
PollVerdictPendingFatal(ans) ==
    IF ans.kind = "ok" /\ ans.status = "valid" THEN "break" ELSE "raise"

\* Variant of PollVerdict: a failed GET is taken as one more pending turn.
PollVerdictSoftFailure(ans) ==
    IF ans.kind # "ok" THEN "sleep"
    ELSE IF ans.status = "pending" THEN "sleep"
    ELSE IF ans.status = "valid" THEN "break"
    ELSE "raise"

\* What one turn of the while loop does with the answer of its GET.
PollVerdict(ans) ==
    IF ans.kind # "ok" THEN "raise"
    ELSE IF ans.status = "pending" THEN "sleep"
    ELSE IF ans.status = "valid" THEN "break"
    ELSE "raise"

\* Variant of PollRemoves: no turn of the loop removes the file.
PollRemovesNever(verdict) == FALSE

\* Variant of PollRemoves: the file is removed on every turn that does not raise.
PollRemovesEveryTurn(verdict) == verdict \in {"sleep", "break"}

\* Line 145: the turns of the loop that call os.remove(wellknown_path).
PollRemoves(verdict) == verdict = "break"

\* The exception of a turn that raises: line 139 reads e.code, which a
\* URLError does not have.
PollError(ans) ==
    IF ans.kind = "ok" THEN "ValueError"
    ELSE IF ans.kind = "HTTPError" THEN "ValueError"
    ELSE "AttributeError"

Poll ==
    /\ pc = "poll"
    /\ \E ans \in PollAnswers :
         LET verdict == PollVerdict(ans)
         IN /\ (ans.kind = "ok" /\ ans.status = "pending") => Len(polled[domain]) < MaxPolls
            /\ polled' = [polled EXCEPT ![domain] = Append(@, ans)]
            /\ files' = IF PollRemoves(verdict) THEN RemoveFile(files, wellknown_path)
                        ELSE files
            /\ removed' = IF PollRemoves(verdict) THEN [removed EXCEPT ![domain] = @ + 1]
                          ELSE removed
            /\ \/ /\ verdict = "sleep"
                  /\ pc' = pc /\ err' = err /\ valid' = valid
               \/ /\ verdict = "break"
                  /\ valid' = valid \cup {domain}
                  /\ pc' = "loop" /\ err' = err
               \/ /\ verdict = "raise"
                  /\ Raise(PollError(ans),
                           IF ans.kind = "ok" THEN "challenge did not pass"
                           ELSE "Error checking challenge", NoneCode, ans.status)
                  /\ valid' = valid
    /\ UNCHANGED <<chain, header, callVars, challenge, token, keyauthorization,
                   wellknown_path,
                   written, verify, loopVars, certVars>>

\* ---------------------------------------------------------- lines 156-167
\* The regular expression of line 159 on one Link header: it matches when
\* the line starts with a <url> and a rel="up" follows; group 1 is that url.
IsUp(link) == \E i \in DOMAIN link : link[i].rel = "up"
UpUrl(link) == link[1].url

\* The resource behind a url of the authority.
UrlContent(url) == <<"der", url>>

\* Lines 166-167: base64, wrapped, between the BEGIN and END lines.
Pem(cert) == [begin |-> "-----BEGIN CERTIFICATE-----", b64 |-> <<"b64", cert>>,
              end |-> "-----END CERTIFICATE-----"]

\* Variant of ExtendChain: the new entry is put right after the leaf.
ExtendChainAfterLeaf(certs, cert) == <<Head(certs), cert>> \o Tail(certs)

\* Line 162: certchain.append.
ExtendChain(certs, cert) == Append(certs, cert)

\* Lines 156-158: the chain starts with the leaf; headers.get_all("Link")
\* is None when the response has no Link header, and iterating it raises.
Assemble ==
    /\ pc = "assemble"
    /\ certchain' = <<result>>
    /\ \/ /\ ~chain
          /\ pc' = "return" /\ err' = err /\ linkIdx' = linkIdx
       \/ /\ chain /\ headers = <<>>
          /\ Raise("TypeError", "NoneType is not iterable", NoneCode, "-")
          /\ linkIdx' = linkIdx
       \/ /\ chain /\ headers # <<>>
          /\ pc' = "links" /\ err' = err /\ linkIdx' = 1
    /\ UNCHANGED <<chain, header, callVars, domVars, loopVars, fetched, output>>

\* Lines 158-162: one turn of the loop over the Link headers.  The loop
\* variable is header, the variable _send_signed_request reads.
Links ==
    /\ pc = "links"
    /\ \/ /\ linkIdx > Len(headers)
          /\ pc' = "return" /\ err' = err
          /\ UNCHANGED <<header, linkIdx, certchain, fetched>>
       \/ /\ linkIdx <= Len(headers)
          /\ header' = [link |-> headers[linkIdx]]
          /\ linkIdx' = linkIdx + 1
          /\ \/ /\ ~IsUp(headers[linkIdx])
                /\ pc' = pc /\ err' = err
                /\ UNCHANGED <<certchain, fetched>>
             \/ /\ IsUp(headers[linkIdx])
                /\ certchain' = ExtendChain(certchain, UrlContent(UpUrl(headers[linkIdx])))
                /\ fetched' = Append(fetched, UpUrl(headers[linkIdx]))
                /\ pc' = pc /\ err' = err
             \/ /\ IsUp(headers[linkIdx])
                /\ Raise("URLError", "intermediate", NoneCode, UpUrl(headers[linkIdx]))
                /\ fetched' = Append(fetched, UpUrl(headers[linkIdx]))
                /\ certchain' = certchain
    /\ UNCHANGED <<chain, callVars, domVars, loopVars, output>>

\* Lines 164-167: the PEM blocks of the chain, in chain order.
Return ==
    /\ pc = "return"
    /\ output' = [i \in DOMAIN certchain |-> Pem(certchain[i])]
    /\ pc' = "done"
    /\ UNCHANGED <<chain, header, err, callVars, domVars, loopVars, certchain, linkIdx,
                   fetched>>

Next ==
    \/ ParseKey
    \/ ParseCsr
    \/ Terms
    \/ FetchNonce
    \/ Sign
    \/ Post
    \/ Loop
    \/ Publish
    \/ SelfCheck
    \/ Poll
    \/ Assemble
    \/ Links
    \/ Return

Spec == Init /\ [][Next]_vars

\* The run under the assumption that every call of the environment returns:
\* a step that can be taken is eventually taken.  The authority answers at
\* most MaxPolls polls of a challenge with "pending".
LiveSpec == Init /\ [][Next]_vars /\ WF_vars(Next)

\* ================================================================ claims
\* Observations the claims are stated over.
Sent(site, d) == \E i \in DOMAIN posted : posted[i].site = site /\ posted[i].dom = d
NotifySent(d) == Sent("challenge", d)
CertSent == \E i \in DOMAIN posted : posted[i].site = "new-cert"
Last(s) == s[Len(s)]

\* The self-verification fetch of d was made and got the content the file
\* of d was written with, up to surrounding whitespace.
Fetched(d) == verify[d].kind # "-"
Confirmed(d) ==
    /\ written[d] # <<>>
    /\ verify[d].kind = "ok"
    /\ Strip(verify[d].data) = Last(written[d]).content

\* C1: a notify request for a domain is sent only after its challenge file
\* was written and the self-verification fetch got content that, trimmed,
\* equals the key authorization; when the fetch fails to read or gets other
\* content the run has failed and no notify request is sent for that domain.
C1_NotifyOnlyAfterSelfCheck ==
    \A d \in DomainNames :
        /\ NotifySent(d) => Confirmed(d)
        /\ (Fetched(d) /\ ~Confirmed(d)) => (pc = "failed" /\ ~NotifySent(d))

\* C1 witness: a notify was sent after a fetch that matched only once trimmed.
C1_Witness ==
    \E d \in DomainNames :
        /\ NotifySent(d)
        /\ verify[d].data # Last(written[d]).content
        /\ Len(written[d]) = 1

\* The polls of d so far: only pending; pending ... pending, valid.
IsStatus(ans, st) == ans.kind = "ok" /\ ans.status = st
AllPending(s) == \A i \in DOMAIN s : IsStatus(s[i], "pending")
PendingThenValid(s) ==
    /\ s # <<>>
    /\ IsStatus(Last(s), "valid")
    /\ AllPending(SubSeq(s, 1, Len(s) - 1))

\* A domain's verification has left the loop body in one of the three ways
\* C2 names: valid, a failed self-verification, a terminal non-valid status.
SelfCheckFailed(d) ==
    /\ written[d] # <<>>
    /\ \/ verify[d].kind = "IOError"
       \/ verify[d].kind = "ok" /\ Strip(verify[d].data) # Last(written[d]).content
TerminalNotValid(d) ==
    /\ polled[d] # <<>>
    /\ Last(polled[d]).kind = "ok"
    /\ Last(polled[d]).status \notin {"pending", "valid"}
Exited(d) == PendingThenValid(polled[d]) \/ SelfCheckFailed(d) \/ TerminalNotValid(d)

\* C2: on every exit out of a domain's verification (valid, self-verification
\* failure, terminal non-valid status) its challenge file has been removed
\* exactly once, and after a terminal non-valid status the run has failed.
C2_RemovedOnEveryExit ==
    \A d \in DomainNames :
        /\ Exited(d) => removed[d] = 1
        /\ TerminalNotValid(d) => pc = "failed"

\* C3: when the polls of a domain are pending ... pending, valid, its
\* verification has ended at the break, its file was removed exactly once;
\* while every poll so far was pending nothing was removed, and a removal
\* after a confirmed self-check means the last poll said valid.
C3_PendingThenValid ==
    \A d \in DomainNames :
        /\ PendingThenValid(polled[d]) => (d \in valid /\ removed[d] = 1)
        /\ (Confirmed(d) /\ AllPending(polled[d])) => (removed[d] = 0 /\ d \notin valid)
        /\ (Confirmed(d) /\ removed[d] > 0) => PendingThenValid(polled[d])

\* C3 witness: pending, pending, valid was polled and the file removed once.
C3_Witness ==
    \E d \in DomainNames :
        /\ Len(polled[d]) = 3
        /\ PendingThenValid(polled[d])
        /\ removed[d] = 1
        /\ wellknown_path \notin DOMAIN files

\* The domains the loop of line 102 has yielded so far.
Started == domains \ todo

\* C4: the new-cert request is sent only when the last poll of every domain
\* of the CSR said valid; a domain is started only when every domain started
\* before it is valid; a run that failed in a domain's verification started no
\* domain after it and sent no new-cert request; a failed run returns nothing.
C4_CertOnlyAfterAllValid ==
    /\ CertSent => \A d \in domains : PendingThenValid(polled[d])
    /\ \A d \in Started \ {domain} : PendingThenValid(polled[d])
    /\ pc = "failed" => output = <<>>
    /\ (pc = "failed" /\ Started \ valid # {}) =>
           (~CertSent /\ Started \ valid = {domain})
    /\ output # <<>> => (pc = "done" /\ CertSent)

\* C4 witness: the second of two domains failed after the first was valid.
C4_Witness ==
    /\ pc = "failed"
    /\ Cardinality(domains) = 2
    /\ Cardinality(valid) = 1
    /\ todo = {}
    /\ ~CertSent

\* No call of _send_signed_request is running; no two requests share a nonce;
\* the run ended in the signing of line 57.
AtRest == step = "none"
DistinctNonces ==
    \A i, j \in DOMAIN posted : posted[i].nonce = posted[j].nonce => i = j
SigningFailed == pc = "failed" /\ err.exc = "IOError" /\ err.result = "dgst"

\* C5 as stated: outside a call of _send_signed_request the nonces fetched
\* are as many as the signed requests sent, and no two requests share one.
C5_EveryNonceConsumed ==
    /\ DistinctNonces
    /\ AtRest => nonces = Len(posted)

\* C5 amended: the i-th request sent carries the i-th nonce fetched, so no
\* nonce is used twice; the nonce is fetched at the start of the call whose
\* request carries it; and the nonces fetched are as many as the requests
\* sent, but for one more when the signing of the last call failed, which
\* ended the run with that nonce unused.
C5_NonceFreshPerRequest ==
    /\ \A i \in DOMAIN posted : posted[i].nonce = i
    /\ step = "nonce" => nonces = Len(posted)
    /\ step \in {"sign", "post"} => (nonces = Len(posted) + 1 /\ protected = nonces)
    /\ AtRest => IF SigningFailed THEN nonces = Len(posted) + 1 ELSE nonces = Len(posted)

\* C5 witness: a later call's signing failed after earlier requests were sent.
C5_Witness ==
    /\ SigningFailed
    /\ Len(posted) >= 2
    /\ nonces = Len(posted) + 1

\* The last answered call got a status code / got none.
Answered == lastCall.site # "-"
GotStatus == Answered /\ lastCall.resp.via \in {"ok", "HTTPError"}
TransportFailure == Answered /\ lastCall.resp.via \in {"URLError", "other"}
ExpectedCodes(site) ==
    CASE site = "new-reg" -> {201, 409}
      [] site = "new-authz" -> {201}
      [] site = "challenge" -> {202}
      [] site = "new-cert" -> {201}

\* C6: a call answered with a status code of its table returns the body and
\* the headers of the response, whether or not the table has a message for
\* it; answered with any other status code it raises ValueError with that code
\* and the body of the response, read from the failed response when not 2xx.
C6_ClassifiedByStatusCode ==
    GotStatus =>
        IF lastCall.resp.code \in ExpectedCodes(lastCall.site)
        THEN /\ lastCall.out.kind = "return"
             /\ lastCall.out.result = lastCall.resp.body
             /\ lastCall.out.headers = lastCall.resp.headers
             /\ (pc = AfterCall(lastCall.site) =>
                    (result = lastCall.resp.body /\ headers = lastCall.resp.headers))
        ELSE /\ lastCall.out.kind = "raise"
             /\ pc = "failed"
             /\ err.exc = "ValueError"
             /\ err.what = ErrorMessage(lastCall.site)
             /\ err.code = lastCall.resp.code
             /\ err.result = lastCall.resp.body

\* C6 witness: a non-2xx status outside the table raised with code and body.
C6_Witness ==
    /\ GotStatus
    /\ lastCall.site = "new-authz"
    /\ lastCall.resp.via = "HTTPError"
    /\ lastCall.resp.code = 409
    /\ err.code = 409
    /\ err.result = "detail-2"

\* A protocol-level error: ValueError carrying an HTTP status code.
IsProtocolError(e) == e.exc = "ValueError" /\ e.code # NoneCode

\* C7: a call whose POST failed without a status code ends the run with an
\* error that is no protocol-level error: it carries no status code (the
\* ValueError has code None) or is of another exception type.
C7_TransportFailureDistinguished ==
    TransportFailure =>
        /\ lastCall.out.kind = "raise"
        /\ pc = "failed"
        /\ ~IsProtocolError(err)
        /\ \/ err.exc = "ValueError" /\ err.code = NoneCode /\ lastCall.resp.via = "URLError"
           \/ err.exc = "UnboundLocalError" /\ lastCall.resp.via = "other"

\* C7 witness: a refused connection raised ValueError with code None.
C7_Witness ==
    /\ TransportFailure
    /\ lastCall.resp.via = "URLError"
    /\ err.exc = "ValueError"
    /\ err.result = "Connection refused"

\* Lines 76-84 have run: domains is the set extracted from the CSR.
DomainsParsed == pc \notin {"parse_key", "parse_csr"}

\* C8 as stated: with no domain in the CSR the run fails where the
\* authorization would begin: no new-cert request is sent and get_crt does
\* not return.
C8_EmptyDomainsFail ==
    (DomainsParsed /\ domains = {}) => (~CertSent /\ pc # "done")

\* The new-reg requests sent; the call of line 99 has returned.
RegIndexes == {i \in DOMAIN posted : posted[i].site = "new-reg"}
PastRegistration == pc \notin {"parse_key", "parse_csr", "terms", "new-reg", "failed"}

\* C9: new-reg is the first signed request and is sent once; answered 201
\* or 409 the call returns, the run goes on to the loop over the domains and
\* never fails with the registration error; with any other answer the run
\* has failed and no other request is sent.
C9_RegistrationOnceAndFirst ==
    /\ Cardinality(RegIndexes) <= 1
    /\ posted # <<>> => RegIndexes = {1}
    /\ PastRegistration => RegIndexes = {1}
    /\ (posted # <<>> /\ posted[1].code \in {201, 409}) =>
           /\ (Len(posted) = 1 => (lastCall.site = "new-reg" /\ lastCall.out.kind = "return"))
           /\ (Len(posted) = 1 /\ AtRest /\ pc # "failed") => pc = "loop"
           /\ pc = "failed" => err.what # ErrorMessage("new-reg")
    /\ (posted # <<>> /\ posted[1].code \notin {201, 409}) =>
           (pc = "failed" /\ Len(posted) = 1)

\* C9 witness: registration answered 409 and a new-authz request followed.
C9_Witness ==
    /\ Len(posted) >= 2
    /\ posted[1].site = "new-reg"
    /\ posted[1].code = 409
    /\ posted[2].site = "new-authz"

\* The Link headers of relation "up" of the new-cert response, in order.
UpLinks == SelectSeq(lastCall.resp.headers, IsUp)
ExpectedChain ==
    IF chain
    THEN <<lastCall.resp.body>> \o [i \in DOMAIN UpLinks |-> UrlContent(UpUrl(UpLinks[i]))]
    ELSE <<lastCall.resp.body>>

\* C10: a run that returns returns the PEM blocks of the leaf followed, when
\* chain is set, by what each "up" Link header of the new-cert response
\* refers to, in header order, and of the leaf alone when chain is not set;
\* without chain nothing is fetched.
C10_ChainLeafFirst ==
    /\ pc = "done" =>
           /\ lastCall.site = "new-cert"
           /\ output = [i \in DOMAIN ExpectedChain |-> Pem(ExpectedChain[i])]
           /\ chain => fetched = [i \in DOMAIN UpLinks |-> UpUrl(UpLinks[i])]
    /\ ~chain => fetched = <<>>

\* C10 witness: two different "up" links gave a chain of three.
C10_Witness ==
    /\ pc = "done"
    /\ chain
    /\ Len(output) = 3
    /\ output[2] # output[3]
    /\ Len(lastCall.resp.headers) = 2

\* The index in posted of the request of a site for a domain, 0 when none.
IndexOf(site, d) ==
    IF Sent(site, d)
    THEN CHOOSE i \in DOMAIN posted : posted[i].site = site /\ posted[i].dom = d
    ELSE 0
Accepted(site, d, code) ==
    \E i \in DOMAIN posted :
        posted[i].site = site /\ posted[i].dom = d /\ posted[i].code = code

\* C11: for each domain the steps come in the order new-authz, file write,
\* self-verification fetch, notify, polls: a file is written only after
\* new-authz was answered 201, the fetch follows the write, the notify
\* follows the fetch and is the request right after the domain's new-authz,
\* a poll is made only after the notify was answered 202, a domain that is
\* valid went through every step, and the new-authz of a domain follows the
\* notify of a domain whose polls ended in valid.
C11_StepsInOrder ==
    /\ \A d \in DomainNames :
        /\ written[d] # <<>> => Accepted("new-authz", d, 201)
        /\ Fetched(d) => written[d] # <<>>
        /\ NotifySent(d) => (Fetched(d) /\ IndexOf("challenge", d) = IndexOf("new-authz", d) + 1)
        /\ polled[d] # <<>> => Accepted("challenge", d, 202)
        /\ d \in valid => (Len(written[d]) = 1 /\ Confirmed(d) /\ PendingThenValid(polled[d]))
    /\ \A i \in DOMAIN posted :
        (posted[i].site = "new-authz" /\ i > 2) =>
            /\ posted[i - 1].site = "challenge"
            /\ posted[i - 1].dom # posted[i].dom
            /\ PendingThenValid(polled[posted[i - 1].dom])
            /\ written[posted[i].dom] = <<>> \/ IndexOf("new-authz", posted[i].dom) = i

\* C11 witness: the second domain is being polled after the first was valid.
C11_Witness ==
    /\ Cardinality(valid) = 1
    /\ domain \notin valid
    /\ polled[domain] # <<>>
    /\ Len(posted) = 5

\* get_crt has returned or raised.
Terminated == pc \in {"done", "failed"}

\* The variables of the program, without the record of what was observed.
programVars == <<pc, step, chain, header, domains, todo, domain, protected, result,
                 headers, challenge, token, keyauthorization, wellknown_path, files,
                 certchain,
                 linkIdx, err, output>>

\* C12: the while loop polls again after every pending status and keeps no
\* count of its turns (a pending turn changes no variable of the program),
\* it is left at the first status that is not pending, and so, when every
\* call returns and the authority ends the pending answers of each
\* challenge, every run of get_crt terminates.
C12_PollsWhilePending ==
    /\ <>Terminated
    /\ [](pc = "poll" => AllPending(polled[domain]))
    /\ [][(pc = "poll" /\ polled' # polled) =>
              IF IsStatus(Last(polled'[domain]), "pending")
              THEN pc' = "poll" /\ UNCHANGED programVars
              ELSE pc' \in {"loop", "failed"}]_vars

\* C12 witness: a run has ended after a challenge was pending as long as the
\* authority may keep it pending, and then was not.
C12_Witness ==
    /\ Terminated
    /\ \E d \in DomainNames :
          /\ Len(polled[d]) = MaxPolls + 1
          /\ AllPending(SubSeq(polled[d], 1, MaxPolls))


\* The requests sent to one resource, for one domain.
Requests(site) == {i \in DOMAIN posted : posted[i].site = site}
RequestsFor(site, d) == {i \in Requests(site) : posted[i].dom = d}

\* C13: each domain gets at most one new-authz and at most one notify
\* request, new-reg and new-cert are sent at most once each, an error is
\* recorded exactly when the run has failed, a failed run takes no further
\* step, and more than one poll of a domain means all but the last were
\* pending.
C13_NoRetry ==
    /\ \A d \in DomainNames :
          /\ Cardinality(RequestsFor("new-authz", d)) <= 1
          /\ Cardinality(RequestsFor("challenge", d)) <= 1
          /\ Len(written[d]) <= 1
          /\ polled[d] # <<>> => AllPending(SubSeq(polled[d], 1, Len(polled[d]) - 1))
    /\ Cardinality(Requests("new-reg")) <= 1
    /\ Cardinality(Requests("new-cert")) <= 1
    /\ err.exc # NoErr.exc <=> pc = "failed"
    /\ pc = "failed" => ~ENABLED Next

\* C13 witness: a run failed at the new-authz request of its second domain,
\* after the first domain was polled more than once.
C13_Witness ==
    /\ pc = "failed"
    /\ lastCall.site = "new-authz"
    /\ Cardinality(valid) = 1
    /\ \E d \in valid : Len(polled[d]) > 1


\* The GET of a status poll did not return a response body.
PollTransportError(ans) == ans.kind \in {"HTTPError", "URLError"}

\* C14: a status poll that ends in a transport error is the last poll of
\* its domain and of the run: the run has failed with the exception of line
\* 139, the domain is not valid, no later domain was started and no new-cert
\* request was sent.
C14_PollTransportErrorFatal ==
    \A d \in DomainNames : \A i \in DOMAIN polled[d] :
        PollTransportError(polled[d][i]) =>
            /\ i = Len(polled[d])
            /\ pc = "failed"
            /\ err.exc = PollError(polled[d][i])
            /\ d = domain /\ d \notin valid
            /\ lastCall.site = "challenge"
            /\ ~CertSent
            /\ output = <<>>

\* C14 witness: the second poll of a domain ended in a transport error.
C14_Witness ==
    /\ pc = "failed"
    /\ \E d \in DomainNames :
          /\ Len(polled[d]) = 2
          /\ PollTransportError(polled[d][2])


\* The last signed request was a new-authz answered 201 with a set of
\* challenges none of which is of type http-01.
NoHttp01Offered ==
    /\ lastCall.site = "new-authz"
    /\ lastCall.resp.code = 201
    /\ \A i \in DOMAIN lastCall.resp.body : lastCall.resp.body[i].type # "http-01"

\* C15: after a 201 new-authz response without an http-01 challenge the
\* only step left is the failure of line 111: no file of the domain is
\* written, none is in the directory, no self-check fetch and no notify
\* request is made for it, and the run ends with the IndexError; and only
\* such a response ends a run that way.
C15_NoHttp01Aborts ==
    /\ NoHttp01Offered =>
          /\ written[domain] = <<>>
          /\ DOMAIN files = {}
          /\ ~Fetched(domain)
          /\ ~NotifySent(domain)
          /\ polled[domain] = <<>>
          /\ pc \in {"publish", "failed"}
          /\ pc = "failed" => err.exc = "IndexError"
          /\ Last(posted).site = "new-authz"
    /\ err.exc = "IndexError" => NoHttp01Offered

\* C15 witness: the second domain was offered no http-01 challenge and the
\* run has ended there.
C15_Witness ==
    /\ NoHttp01Offered
    /\ pc = "failed"
    /\ Cardinality(valid) = 1


\* The signature openssl gives when it succeeds on a request.
GoodSignature(n, payload) == DgstOutput(0, n, payload)

\* C16: a request is posted only with the signature a successful run of
\* openssl dgst gave for it, and when the signing of a call failed the call
\* has ended with the IOError, no request carrying the nonce of that call
\* was sent, and get_crt returns nothing.
C16_SigningFailureSendsNothing ==
    /\ \A i \in DOMAIN posted :
          posted[i].signature = GoodSignature(posted[i].nonce, posted[i].payload)
    /\ step = "post" =>
          signature = GoodSignature(protected, Payload(pc, domain, keyauthorization))
    /\ SigningFailed =>
          /\ step = "none"
          /\ \A i \in DOMAIN posted : posted[i].nonce # protected
          /\ Len(posted) = nonces - 1
          /\ lastCall.site = IF posted = <<>> THEN NoCall.site ELSE Last(posted).site
          /\ output = <<>>

\* C16 witness: the signing of the third signed request failed.
C16_Witness ==
    /\ SigningFailed
    /\ Len(posted) = 2
    /\ protected = 3


\* Two requests of the run that carry the same payload.
SamePayload(i, j) == i # j /\ posted[i].payload = posted[j].payload

\* C17: every request sent carries header {alg, jwk} as derived from the
\* account key, and as protected header that value with the nonce added;
\* header keeps that value while any signed request is built or may still
\* be built, and is rebound only after the new-cert request has returned;
\* two requests with the same payload differ in the nonce and in nothing
\* else of the envelope.
C17_HeaderUnchanged ==
    /\ \A i \in DOMAIN posted :
          /\ posted[i].header = AccountHeader
          /\ posted[i].protected = Protected(AccountHeader, posted[i].nonce)
    /\ (InCall \/ ~CertSent) => header = AccountHeader
    /\ header # AccountHeader =>
          /\ Last(posted).site = "new-cert"
          /\ lastCall.out.kind = "return"
          /\ step = "none"
          /\ linkIdx > 0
    /\ \A i, j \in DOMAIN posted :
          SamePayload(i, j) =>
              /\ posted[i].nonce # posted[j].nonce
              /\ posted[i].header = posted[j].header
              /\ [posted[i].protected EXCEPT !.nonce = posted[j].nonce] = posted[j].protected

\* C17 witness: the notify requests of two domains carried the same
\* payload, and header was rebound by the loop over the Link headers.
C17_Witness ==
    /\ \E i, j \in DOMAIN posted : SamePayload(i, j)
    /\ header # AccountHeader


\* Characters a token of the authority may hold, two of them outside the
\* class of line 112, and the tokens up to MaxTokenLen over them.
TokenChars == TokenSafe \cup {"/", "~"}
Tokens == UNION {[1..n -> TokenChars] : n \in 0..MaxTokenLen}

\* What C18 says of the function: same length, a character of the class is
\* kept, any other is '_' at its position, and a second pass changes nothing.
SanitizeLaw(t) ==
    /\ Len(Sanitize(t)) = Len(t)
    /\ \A i \in 1..Len(t) :
          Sanitize(t)[i] = IF t[i] \in TokenSafe THEN t[i] ELSE "_"
    /\ Sanitize(Sanitize(t)) = Sanitize(t)

\* The token of the selected challenge as the authority sent it.
RawToken == challenge.token

\* C18: for every token, sanitizing keeps the length, keeps the characters
\* of [A-Za-z0-9_-], puts '_' at the position of every other and is
\* idempotent (a law of the function, evaluated at the start of a run); and
\* in a run the file written, the key authorization written into it and sent
\* in the notify request, and the url of the self-check fetch are all built
\* from the sanitized token of the selected challenge.
C18_SanitizedTokenUsed ==
    /\ pc = "parse_key" => \A t \in Tokens : SanitizeLaw(t)
    /\ \A d \in DomainNames :
          (d = domain /\ written[d] # <<>>) =>
              /\ token = Sanitize(RawToken)
              /\ Last(written[d]).path = Sanitize(RawToken)
              /\ Last(written[d]).content = Sanitize(RawToken) \o <<".">> \o thumbprint
              /\ keyauthorization = Last(written[d]).content
              /\ Fetched(d) => verify[d].url = WellknownUrl(d, Sanitize(RawToken))
              /\ NotifySent(d) =>
                    posted[IndexOf("challenge", d)].payload.about = keyauthorization
    /\ \A n \in DOMAIN files : \A i \in DOMAIN n : n[i] \in TokenSafe

\* C18 witness: the notify request was sent for a challenge whose token
\* holds characters outside the class.
C18_Witness ==
    /\ domain \in DomainNames
    /\ NotifySent(domain)
    /\ Sanitize(RawToken) # RawToken
    /\ wellknown_path \in DOMAIN files


\* The notify request of d was sent and no poll of d has yet observed a
\* status other than pending.
BeingProbed(d) == NotifySent(d) /\ AllPending(polled[d])

\* C19: from the notify request of a domain until a poll observes a status
\* that is not pending, the file of that domain is in the directory with the
\* key authorization as content and has not been removed; and a file is
\* removed after the notify request only by a poll that said valid.
C19_FileKeptWhileProbed ==
    \A d \in DomainNames :
        /\ BeingProbed(d) =>
              /\ d = domain
              /\ wellknown_path \in DOMAIN files
              /\ files[wellknown_path] = keyauthorization
              /\ files[wellknown_path] = KeyAuthorization(Sanitize(RawToken))
              /\ removed[d] = 0
        /\ (NotifySent(d) /\ removed[d] > 0) => IsStatus(Last(polled[d]), "valid")

\* C19 witness: the file is in place after as many pending polls as the
\* authority may answer.
C19_Witness ==
    /\ pc = "poll"
    /\ BeingProbed(domain)
    /\ Len(polled[domain]) = MaxPolls
    /\ files[wellknown_path] = keyauthorization


\* The files of the publication directory that this run wrote.
ChallengeFiles == DOMAIN files

\* C20: at most one challenge file of the run exists at any time, and it is
\* the file of the current domain; none exists while the new-authz request
\* of a domain is built or sent, nor after get_crt has returned.
C20_AtMostOneFile ==
    /\ Cardinality(ChallengeFiles) <= 1
    /\ ChallengeFiles \subseteq {wellknown_path}
    /\ ChallengeFiles # {} => (domain \in DomainNames /\ domain \notin valid
                                /\ written[domain] # <<>>)
    /\ pc \in {"new-authz", "new-cert", "assemble", "links", "done"} => ChallengeFiles = {}

\* C20 witness: the file of the second domain exists, under another name
\* than the file of the first, which is gone.
C20_Witness ==
    /\ Cardinality(valid) = 1
    /\ ChallengeFiles = {wellknown_path}
    /\ \E d \in valid : Last(written[d]).path \notin ChallengeFiles

=============================================================================
